---- MODULE Spec2Model ----
(***************************************************************************)
(* bom-message: request/response messaging between entities over a        *)
(* broadcast transport (src/src/bom-message.ts, src/src/data-converters.ts)*)
(*                                                                         *)
(* The model is one JavaScript execution context.  The registry is the     *)
(* static side of class Entity, every `new Entity` that registers          *)
(* allocates an object, the transport holds the envelopes whose delivery   *)
(* is scheduled, and the microtask queue holds the continuations of the    *)
(* `await`s of sendMessage, the reply callback and handleIncomingMessage.  *)
(***************************************************************************)
EXTENDS Integers, Sequences, FiniteSets, TLC

\* ------------------------------------------------------------------ bounds
\* Calls the application makes in one run, counted from the initial state:
\* init, destroy, new Entity, entity.destroy, subscribeMessage, an unsubscribe
\* closure, sendMessage, a reply callback.  Everything else is bounded by it.
MaxCalls == 4

\* Elements of an array payload.
MaxItems == 2
\* Fields of a FormData encoded on its own.
MaxFields == 3
\* Calls made on synthesized emitters used on their own.
MaxEmitterCalls == 4

Ids == {"A", "B", "C"}
Handlers == {"h1", "h2"}

\* ------------------------------------------------------- payload values
\* Application values: a string without a comma, a number, a File, a
\* FormData of one field, an array, an object of one key.
Str(s) == [t |-> "str", s |-> s]
Num(n) == [t |-> "num", n |-> n]
File(n, ty, b) == [t |-> "file", name |-> n, type |-> ty, bytes |-> b]
Form(k, v) == [t |-> "form", key |-> k, value |-> v]
Arr(items) == [t |-> "arr", items |-> items]
Obj(k, v) == [t |-> "obj", key |-> k, value |-> v]
\* Wire values: the string "<prefix>,<data>" and the object
\* {dataType: "formData", items: {<key>: <item>}}.  The string is described
\* by what decodeFile reads in it: `type` is what /:(.*?);/ captures in the
\* prefix (NoMime: an empty prefix or no match), `bytes` is what atob makes
\* of the data (<<>>: nothing after the comma, NotBase64: atob throws).
\* readAsDataURL produces "data:<type>;base64,<bytes>".
DataUrl(ty, b) == [t |-> "durl", type |-> ty, bytes |-> b]
NoMime == "no match"
NotBase64 == <<-1>>
EncodedFormData(k, item) == [t |-> "eform", key |-> k, item |-> item]
Thrown == [t |-> "throw"]
NoValue == [t |-> "none"]

Hello == Str("Hello")
Hi == Str("Hi")
Png == File("a.png", "image/png", <<7>>)
EmptyUpload == Form("upload", File("", "image/png", <<>>))

MsgValues == {Hello}
ConfigSourceIds == {{}, {"B"}}
\* The props given to init, <<sourceEntityIds, enableAutoCustomEmitter,
\* verbose>>: the defaults, the defaults without a synthesized emitter, and
\* an ignored source with logging.
InitProps ==
    {c \in ConfigSourceIds \X BOOLEAN \X BOOLEAN :
        /\ c[3] = (c[1] # {})
        /\ c[2] \/ c[1] = {}}
ReplyValues == {Hi, Png, EmptyUpload}

\* FileReader.readAsDataURL: the name of the file is not part of the result.
encodeFile(file) == DataUrl(file.type, file.bytes)

\* split(",") leaves no base64 part when the string has no comma or when the
\* file was empty; then the prefix is matched, then atob is called.
decodeFile(base64String, fileName) ==
    IF base64String.t # "durl" THEN Thrown
    ELSE IF base64String.bytes = <<>> THEN Thrown
    ELSE IF base64String.type = NoMime THEN Thrown
    ELSE IF base64String.bytes = NotBase64 THEN Thrown
    ELSE File(fileName, base64String.type, base64String.bytes)

\* The item encodeFormData stores for a field value, once it is read.
EncodedFormDataItem(value) ==
    IF value.t = "file"
    THEN [dataType |-> "file", fileName |-> value.name,
          fileType |-> value.type, fileSize |-> Len(value.bytes),
          content |-> encodeFile(value)]
    ELSE [dataType |-> "text", content |-> value]

encodeFormData(formData) ==
    EncodedFormData(formData.key, EncodedFormDataItem(formData.value))

\* decodeFile is called outside any try: its error leaves decodeFormData.
decodeFormData(encodedData) ==
    IF encodedData.item.dataType = "file"
    THEN LET file == decodeFile(encodedData.item.content,
                                encodedData.item.fileName)
         IN IF file = Thrown THEN Thrown ELSE Form(encodedData.key, file)
    ELSE Form(encodedData.key, encodedData.item.content)

RECURSIVE encodeNestedFormData(_)
encodeNestedFormData(data) ==
    IF data.t = "file" THEN encodeFile(data)
    ELSE IF data.t = "form" THEN encodeFormData(data)
    ELSE IF data.t = "arr"
    THEN Arr([i \in DOMAIN data.items |-> encodeNestedFormData(data.items[i])])
    ELSE IF data.t = "obj"
    THEN Obj(data.key, encodeNestedFormData(data.value))
    ELSE data

\* Mutant: the string branch without its try/catch.
decodeString_noCatch(data) == decodeFile(data, "unknown-filename")

\* The string branch: try { return decodeFile(...) } catch { return data }
decodeString(data) ==
    LET file == decodeFile(data, "unknown-filename")
    IN IF file = Thrown THEN data ELSE file

\* An error thrown while an element is decoded leaves the whole call.
RECURSIVE decodeNestedFormData(_)
decodeNestedFormData(data) ==
    IF data.t \in {"str", "durl"} THEN decodeString(data)
    ELSE IF data.t = "eform" THEN decodeFormData(data)
    ELSE IF data.t = "arr"
    THEN LET items == [i \in DOMAIN data.items |->
                         decodeNestedFormData(data.items[i])]
         IN IF \E i \in DOMAIN items : items[i] = Thrown THEN Thrown
            ELSE Arr(items)
    ELSE IF data.t = "obj"
    THEN LET value == decodeNestedFormData(data.value)
         IN IF value = Thrown THEN Thrown ELSE Obj(data.key, value)
    ELSE data

\* encodeNestedFormData settles in the next microtask unless a FileReader
\* has to read a file first.
RECURSIVE ReadsFile(_)
ReadsFile(data) ==
    \/ data.t = "file"
    \/ data.t = "form" /\ data.value.t = "file"
    \/ data.t = "arr" /\ \E i \in DOMAIN data.items : ReadsFile(data.items[i])
    \/ data.t = "obj" /\ ReadsFile(data.value)

\* ------------------------------------------------------------------- state
VARIABLES
    isInitialized,      \* Entity.isInitialized
    globalVerbose,      \* Entity.globalVerbose
    sourceEntityIdSet,  \* Entity.sourceEntityIdSet
    instances,          \* Entity.instances: id -> object (0: no entry)
    hasEmitter,         \* Entity.messageEmitter has been assigned
    listening,          \* times Entity.onWindowMessage is attached to the emitter
    objs,               \* the Entity objects, in order of allocation
    calls,              \* the promises returned by sendMessage, by messageId
    timers,             \* envelopes scheduled by postMessage (setTimeout 0)
    micro,              \* microtask queue: continuations of the awaits
    reading,            \* continuations waiting for a FileReader
    invoked,            \* the handler invocations so far, each with its
                        \* reply callback
    last,               \* what the last step returned or threw, when it
                        \* was init, new Entity or a destroy; for an
                        \* event of another party, its `from` (id) and
                        \* whether it had no defect (flag)
    ncalls,             \* calls of the public surface so far
    trace,              \* history of each sendMessage call, by messageId
    codec,              \* a value taken through the codec on its own: the
                        \* value, its encoding, the decoding of that
    discovery,          \* a call of createMessageEmitter on its own: the
                        \* global contexts, the props, what it returned
    encoding,           \* a call of encodeFormData on its own: the fields,
                        \* the items stored so far, the file reads going on,
                        \* the promise jobs, what it returned
    shared              \* synthesized emitters used on their own: the
                        \* slots of globalThis, the EventEmitters, the
                        \* adapters returned, the emits scheduled

\* The state of the messaging side.
messaging == <<isInitialized, globalVerbose, sourceEntityIdSet, instances,
               hasEmitter, listening, objs, calls, timers, micro, reading,
               invoked, last, ncalls, trace>>

\* The state of the functions exercised on their own.
aside == <<codec, discovery, encoding, shared>>

vars == <<messaging, aside>>

Range(s) == {s[i] : i \in DOMAIN s}
RemoveAt(s, i) == SubSeq(s, 1, i - 1) \o SubSeq(s, i + 1, Len(s))
Outcome(op, id, flag, ret, err) ==
    [op |-> op, id |-> id, flag |-> flag, ret |-> ret, err |-> err]
Internal == Outcome("", "", FALSE, 0, "")

NewEntity(id) ==
    [id |-> id, messageHandlers |-> <<>>, pendingRequests |-> {},
     unsubscribed |-> {}]

Codec(at, data, encoded, decoded) ==
    [at |-> at, data |-> data, encoded |-> encoded, decoded |-> decoded]

\* A global context (global, globalThis, window): whether it is defined and
\* which of its properties are functions.
Context(defined, methods) == [defined |-> defined, methods |-> methods]
Undefined == Context(FALSE, {})

\* The contexts of a run under Node without a DOM: no context is an emitter.
NoGlobalEmitter ==
    [global |-> Context(TRUE, {}), globalThis |-> Context(TRUE, {}),
     window |-> Undefined]

Discovery(at, context, props, emitter) ==
    [at |-> at, context |-> context, props |-> props, emitter |-> emitter]

\* formData: the fields in order, each [key, value]; items: key -> item;
\* reads: keys whose FileReader has not loaded; loaded: keys in the order
\* their readers loaded; settled: the promises Promise.all has seen resolved.
FormEncoding(at, formData) ==
    [at |-> at, formData |-> formData, items |-> <<>>, reads |-> {},
     loaded |-> <<>>, settled |-> {}, jobs |-> <<>>, returned |-> NoValue]
NoEncoding == FormEncoding("", <<>>)

\* The global emitter keys in use.
Keys == {"bmCustomEventEmitter", "other"}

\* slots: globalThis[key], an EventEmitter or 0; on: for each EventEmitter
\* its "message" listeners in the order they were added, each with the
\* adapter it was added through; adapters: for each adapter returned its
\* key and the EventEmitter its closures hold; timeouts: the emits
\* scheduled; emitted: the listeners called by the last emit; last: the
\* last call; removed: the attachments removed so far, each with the
\* adapter it was removed through; n: the calls so far.
Shared(slots, on, adapters) ==
    [slots |-> slots, on |-> on, adapters |-> adapters, timeouts |-> <<>>,
     emitted |-> [by |-> 0, called |-> <<>>],
     last |-> [op |-> "", adapter |-> 0, listener |-> ""],
     removed |-> {}, n |-> 0]

NoShared == Shared([key \in Keys |-> 0], <<>>, <<>>)

\* Two adapters obtained with the default key.
TwoAdapters ==
    Shared([key \in Keys |-> IF key = "bmCustomEventEmitter" THEN 1 ELSE 0],
           << <<>> >>,
           << [key |-> "bmCustomEventEmitter", emitter |-> 1],
              [key |-> "bmCustomEventEmitter", emitter |-> 1] >>)

\* The class as loaded: nothing initialized, no entity.
Loaded ==
    /\ isInitialized = FALSE
    /\ globalVerbose = FALSE
    /\ sourceEntityIdSet = {}
    /\ instances = [id \in Ids |-> 0]
    /\ hasEmitter = FALSE
    /\ listening = 0
    /\ objs = <<>>

\* The set-up of the README's example: Entity.init(); new Entity("A");
\* new Entity("B").  The state is the one three calls lead to from Loaded.
SetUp ==
    /\ isInitialized = TRUE
    /\ globalVerbose = FALSE
    /\ sourceEntityIdSet = {}
    /\ instances = [id \in Ids |-> IF id = "A" THEN 1
                                   ELSE IF id = "B" THEN 2 ELSE 0]
    /\ hasEmitter = TRUE
    /\ listening = 1
    /\ objs = <<NewEntity("A"), NewEntity("B")>>

Idle ==
    /\ calls = <<>>
    /\ timers = <<>>
    /\ micro = <<>>
    /\ reading = <<>>
    /\ invoked = <<>>
    /\ last = Internal
    /\ ncalls = 0
    /\ trace = <<>>

Init ==
    /\ Loaded \/ SetUp
    /\ Idle
    /\ codec = Codec("", NoValue, NoValue, NoValue)
    /\ discovery = Discovery("", NoGlobalEmitter, <<>>, "")
    /\ encoding = NoEncoding
    /\ shared = NoShared

\* ---------------------------------------------------------------- registry
getById(id) == instances[id]

isMessageEventEmitter(context) ==
    /\ context.defined
    /\ "addEventListener" \in context.methods
    /\ "removeEventListener" \in context.methods
    /\ "postMessage" \in context.methods

\* Mutant: window is looked at first.
createMessageEmitter_windowFirst(context, props) ==
    IF isMessageEventEmitter(context.window) THEN "window"
    ELSE IF isMessageEventEmitter(context.global) THEN "global"
    ELSE IF isMessageEventEmitter(context.globalThis) THEN "globalThis"
    ELSE IF props # <<>> /\ ~props[1] THEN "throw"
    ELSE "custom"

\* What createMessageEmitter returns in the given global contexts: one of
\* the contexts, a synthesized emitter ("custom"), or it throws.  props is
\* <<>> when enableAutoCustomEmitter is not given, else <<its value>>.
createMessageEmitter(context, props) ==
    IF isMessageEventEmitter(context.global) THEN "global"
    ELSE IF isMessageEventEmitter(context.globalThis) THEN "globalThis"
    ELSE IF isMessageEventEmitter(context.window) THEN "window"
    ELSE LET enableAutoCustomEmitter == IF props = <<>> THEN TRUE
                                        ELSE props[1]
         IN IF ~enableAutoCustomEmitter THEN "throw" ELSE "custom"

\* History: the requests that are scheduled on the emitter and not emitted
\* yet when Entity.destroy() is called, and whether an init has attached a
\* listener since.
NoteRegistryDestroyed ==
    [m \in DOMAIN trace |->
       IF \E i \in DOMAIN timers :
            timers[i].type = "request" /\ timers[i].messageId = m
       THEN [trace[m] EXCEPT !.cut = "destroyed"]
       ELSE trace[m]]

NoteInitialized ==
    [m \in DOMAIN trace |->
       IF trace[m].cut = "destroyed"
       THEN [trace[m] EXCEPT !.cut = "initialized"]
       ELSE trace[m]]

\* Mutant: init without the isInitialized guard.
init_always(sourceEntityIds, enableAutoCustomEmitter, verbose) ==
    /\ instances' = [id \in Ids |-> 0]
    /\ sourceEntityIdSet' = sourceEntityIds
    /\ isInitialized' = TRUE
    /\ globalVerbose' = verbose
    /\ hasEmitter' = TRUE
    /\ listening' = listening + 1
    /\ last' = Outcome("init", "", enableAutoCustomEmitter, 0, "")
    /\ trace' = NoteInitialized
    /\ UNCHANGED <<objs, calls, timers, micro, reading, invoked>>

\* The outcome of init; `id` tells an init that directly follows
\* Entity.destroy().
InitOutcome(enableAutoCustomEmitter, err) ==
    Outcome("init", IF last.op = "destroy" THEN "after destroy" ELSE "",
            enableAutoCustomEmitter, 0, err)

init(sourceEntityIds, enableAutoCustomEmitter, verbose) ==
    /\ IF ~isInitialized
       THEN /\ instances' = [id \in Ids |-> 0]
            /\ sourceEntityIdSet' = sourceEntityIds
            /\ isInitialized' = TRUE
            /\ globalVerbose' = verbose
            /\ IF createMessageEmitter(NoGlobalEmitter,
                                       <<enableAutoCustomEmitter>>) = "throw"
               THEN /\ UNCHANGED <<hasEmitter, listening, trace>>
                    /\ last' = InitOutcome(enableAutoCustomEmitter,
                                           "NoTransportAvailable")
               ELSE /\ hasEmitter' = TRUE
                    /\ listening' = listening + 1
                    /\ trace' = NoteInitialized
                    /\ last' = InitOutcome(enableAutoCustomEmitter, "")
       ELSE /\ UNCHANGED <<instances, sourceEntityIdSet, isInitialized,
                           globalVerbose, hasEmitter, listening, trace>>
            /\ last' = InitOutcome(enableAutoCustomEmitter, "")
    /\ UNCHANGED <<objs, calls, timers, micro, reading, invoked>>

\* Mutant: the ignored-source set survives.
destroy_keepsIgnored ==
    /\ listening' = IF hasEmitter /\ listening > 0 THEN listening - 1
                    ELSE listening
    /\ instances' = [id \in Ids |-> 0]
    /\ isInitialized' = FALSE
    /\ last' = Outcome("destroy", "", FALSE, 0, "")
    /\ trace' = NoteRegistryDestroyed
    /\ UNCHANGED <<globalVerbose, sourceEntityIdSet, hasEmitter, objs, calls,
                   timers, micro, reading, invoked>>

\* Mutant: the listener is not removed.
destroy_keepsListener ==
    /\ instances' = [id \in Ids |-> 0]
    /\ sourceEntityIdSet' = {}
    /\ isInitialized' = FALSE
    /\ last' = Outcome("destroy", "", FALSE, 0, "")
    /\ trace' = NoteRegistryDestroyed
    /\ UNCHANGED <<globalVerbose, listening, hasEmitter, objs, calls, timers,
                   micro, reading, invoked>>

destroy ==
    /\ listening' = IF hasEmitter /\ listening > 0 THEN listening - 1
                    ELSE listening
    /\ instances' = [id \in Ids |-> 0]
    /\ sourceEntityIdSet' = {}
    /\ isInitialized' = FALSE
    /\ last' = Outcome("destroy", "", FALSE, 0, "")
    /\ trace' = NoteRegistryDestroyed
    /\ UNCHANGED <<globalVerbose, hasEmitter, objs, calls, timers, micro,
                   reading, invoked>>

\* ------------------------------------------------------------------ entity
\* History: an entity gets registered under the target id of a request that
\* has not been delivered yet.
NoteRegistered(id) ==
    [m \in DOMAIN trace |->
       IF calls[m].to = id /\ trace[m].fate = ""
       THEN [trace[m] EXCEPT !.targetSeen = TRUE]
       ELSE trace[m]]

\* Mutant: a duplicate id registers a fresh object.
constructor_alwaysNew(id, errorOnDuplicate) ==
    /\ objs' = Append(objs, NewEntity(id))
    /\ instances' = [instances EXCEPT ![id] = Len(objs) + 1]
    /\ trace' = NoteRegistered(id)
    /\ last' = Outcome("new", id, errorOnDuplicate, Len(objs) + 1, "")
    /\ UNCHANGED <<isInitialized, globalVerbose, sourceEntityIdSet,
                   hasEmitter,
                   listening, calls, timers, micro, reading, invoked>>

\* Mutant: errorOnDuplicate is ignored.
constructor_neverThrows(id, errorOnDuplicate) ==
    IF instances[id] # 0
    THEN /\ last' = Outcome("new", id, errorOnDuplicate, instances[id], "")
         /\ UNCHANGED <<isInitialized, globalVerbose, sourceEntityIdSet,
                        instances,
                        hasEmitter, listening, objs, calls, timers, micro,
                        reading, invoked, trace>>
    ELSE constructor_alwaysNew(id, errorOnDuplicate)

constructor(id, errorOnDuplicate) ==
    IF instances[id] # 0
    THEN /\ last' = IF errorOnDuplicate
                    THEN Outcome("new", id, errorOnDuplicate, 0,
                                 "DuplicateEntityId")
                    ELSE Outcome("new", id, errorOnDuplicate, getById(id), "")
         /\ UNCHANGED <<isInitialized, globalVerbose, sourceEntityIdSet,
                        instances,
                        hasEmitter, listening, objs, calls, timers, micro,
                        reading, invoked, trace>>
    ELSE /\ objs' = Append(objs, NewEntity(id))
         /\ instances' = [instances EXCEPT ![id] = Len(objs) + 1]
         /\ trace' = NoteRegistered(id)
         /\ last' = Outcome("new", id, errorOnDuplicate, Len(objs) + 1, "")
         /\ UNCHANGED <<isInitialized, globalVerbose, sourceEntityIdSet,
                        hasEmitter,
                        listening, calls, timers, micro, reading, invoked>>

\* History: the calls of an entity that are pending when its destroy() is
\* called, told apart by whether a response is already being processed.
NoteDestroyed(o) ==
    [m \in DOMAIN trace |->
       IF calls[m].obj = o /\ calls[m].state = "pending"
          /\ trace[m].destroyed = ""
       THEN [trace[m] EXCEPT !.destroyed =
               IF \E t \in Range(micro) : t.k = "resolve" /\ t.messageId = m
               THEN "resolving" ELSE "pending"]
       ELSE trace[m]]

DestroyOutcome(o) ==
    Outcome("entity.destroy", objs[o].id, instances[objs[o].id] = o, o, "")

\* Mutant: the whole map is cleared.
entityDestroy_clearsAll(o) ==
    /\ instances' = [id \in Ids |-> 0]
    /\ last' = DestroyOutcome(o)
    /\ trace' = NoteDestroyed(o)
    /\ UNCHANGED <<isInitialized, globalVerbose, sourceEntityIdSet,
                   hasEmitter, listening, objs, calls, timers, micro,
                   reading, invoked>>

\* Mutant: the entry of the id stays in the map.
entityDestroy_keepsEntry(o) ==
    /\ last' = DestroyOutcome(o)
    /\ trace' = NoteDestroyed(o)
    /\ UNCHANGED <<isInitialized, globalVerbose, sourceEntityIdSet, instances,
                   hasEmitter, listening, objs, calls, timers, micro,
                   reading, invoked>>

\* Mutant: destroy() also empties the pending requests of the entity.
entityDestroy_dropsPending(o) ==
    /\ instances' = [instances EXCEPT ![objs[o].id] = 0]
    /\ objs' = [objs EXCEPT ![o].pendingRequests = {}]
    /\ last' = DestroyOutcome(o)
    /\ trace' = NoteDestroyed(o)
    /\ UNCHANGED <<isInitialized, globalVerbose, sourceEntityIdSet,
                   hasEmitter, listening, calls, timers, micro,
                   reading, invoked>>

entityDestroy(o) ==
    /\ instances' = [instances EXCEPT ![objs[o].id] = 0]
    /\ last' = DestroyOutcome(o)
    /\ trace' = NoteDestroyed(o)
    /\ UNCHANGED <<isInitialized, globalVerbose, sourceEntityIdSet,
                   hasEmitter, listening, objs, calls, timers, micro,
                   reading, invoked>>

subscribeMessage(o, handler) ==
    /\ objs' = [objs EXCEPT
                  ![o].messageHandlers = Append(@, handler),
                  ![o].unsubscribed = @ \ {handler}]
    /\ last' = Internal
    /\ UNCHANGED <<isInitialized, globalVerbose, sourceEntityIdSet,
                   instances, hasEmitter,
                   listening, calls, timers, micro, reading, invoked, trace>>

\* Mutant: the filter keeps the handler and drops the others.
WithoutHandler_inverted(handlers, handler) ==
    SelectSeq(handlers, LAMBDA h : h = handler)

\* Mutant: the last handler of the list is removed, whichever it is.
WithoutHandler_dropsLast(handlers, handler) ==
    SubSeq(handlers, 1, Len(handlers) - 1)

\* messageHandlers.filter((h) => h !== handler)
WithoutHandler(handlers, handler) ==
    SelectSeq(handlers, LAMBDA h : h # handler)

\* The closure returned by subscribeMessage(handler) of object o.
unsubscribe(o, handler) ==
    /\ handler \in Range(objs[o].messageHandlers) \cup objs[o].unsubscribed
    /\ objs' = [objs EXCEPT
                  ![o].messageHandlers = WithoutHandler(@, handler),
                  ![o].unsubscribed = @ \cup {handler}]
    /\ last' = Outcome("unsubscribe", handler,
                       handler \in Range(objs[o].messageHandlers), o, "")
    /\ UNCHANGED <<isInitialized, globalVerbose, sourceEntityIdSet,
                   instances, hasEmitter,
                   listening, calls, timers, micro, reading, invoked, trace>>

\* A continuation that resumes once encodeNestedFormData(value) has settled.
AfterEncode(value, task) ==
    IF ReadsFile(value)
    THEN /\ reading' = Append(reading, task)
         /\ UNCHANGED micro
    ELSE /\ micro' = Append(micro, task)
         /\ UNCHANGED reading

\* An event is {data: d}; d is described by what isMessageData looks at.
\* typeof of the fields of an envelope:
Typeofs == [messageId |-> "string", from |-> "string", to |-> "string",
            timestamp |-> "number"]

Request(o, messageId, targetId, message) ==
    [type |-> "request", messageId |-> messageId, from |-> objs[o].id,
     to |-> targetId, payload |-> encodeNestedFormData(message),
     via |-> "bom-message", typeof |-> Typeofs, hasData |-> TRUE,
     hasPayload |-> TRUE, defect |-> "",
     by |-> o, x |-> message, reFrom |-> "", reId |-> 0]

\* Mutant: sendMessage without the check of the registry.
Destroyed_never(o) == FALSE

\* Entity.getById(this.id) is undefined
Destroyed(o) == getById(objs[o].id) = 0

\* Mutant: the resolver is not stored in pendingRequests.
sendMessage_noPending(o, targetId, message) ==
    /\ LET messageId == Len(calls) + 1
       IN /\ calls' = Append(calls,
                [obj |-> o, to |-> targetId,
                 state |-> IF Destroyed(o) THEN "rejected" ELSE "pending",
                 value |-> NoValue])
          /\ trace' = Append(trace,
                [destroyedAtSend |-> instances[objs[o].id] = 0,
                 targetAtSend |-> instances[targetId] # 0,
                 targetSeen |-> instances[targetId] # 0,
                 fate |-> "", handlers |-> <<>>, unsubscribed |-> {},
                 first |-> NoValue, x |-> NoValue, by |-> "",
                 destroyed |-> "", late |-> FALSE, cut |-> ""])
          /\ AfterEncode(message,
                [k |-> "post", inv |-> 0,
                 env |-> Request(o, messageId, targetId, message)])
          /\ last' = Internal
    /\ UNCHANGED <<isInitialized, globalVerbose, sourceEntityIdSet,
                   instances, hasEmitter, objs,
                   listening, timers, invoked>>

sendMessage(o, targetId, message) ==
    /\ LET messageId == Len(calls) + 1
       IN /\ calls' = Append(calls,
                [obj |-> o, to |-> targetId,
                 state |-> IF Destroyed(o) THEN "rejected" ELSE "pending",
                 value |-> NoValue])
          /\ trace' = Append(trace,
                [destroyedAtSend |-> instances[objs[o].id] = 0,
                 targetAtSend |-> instances[targetId] # 0,
                 targetSeen |-> instances[targetId] # 0,
                 fate |-> "", handlers |-> <<>>, unsubscribed |-> {},
                 first |-> NoValue, x |-> NoValue, by |-> "",
                 destroyed |-> "", late |-> FALSE, cut |-> ""])
          /\ objs' = [objs EXCEPT ![o].pendingRequests = @ \cup {messageId}]
          /\ AfterEncode(message,
                [k |-> "post", inv |-> 0,
                 env |-> Request(o, messageId, targetId, message)])
          /\ last' = Internal
    /\ UNCHANGED <<isInitialized, globalVerbose, sourceEntityIdSet,
                   instances, hasEmitter,
                   listening, timers, invoked>>

\* ------------------------------------------------------ incoming dispatch
\* The request branch: forEach starts one async callback per handler of the
\* list as it is now; each evaluates decodeNestedFormData(payload) and
\* awaits it before it calls the handler.  A decoding error ends the callback.
RequestTasks(o, data) ==
    LET handlers == objs[o].messageHandlers
        payload == decodeNestedFormData(data.payload)
    IN IF payload = Thrown THEN <<>>
       ELSE [i \in DOMAIN handlers |->
               [k |-> "invoke", obj |-> o, handler |-> handlers[i],
                from |-> data.from, messageId |-> data.messageId,
                payload |-> payload, req |-> data,
                afterUnsub |-> handlers[i] \in objs[o].unsubscribed]]

\* Mutant: the response branch resolves without looking the resolver up.
ResponseTasks_noLookup(o, data) ==
    LET payload == decodeNestedFormData(data.payload)
    IN IF data.messageId \in DOMAIN calls /\ payload # Thrown
       THEN << [k |-> "resolve", obj |-> o, messageId |-> data.messageId,
                value |-> payload, from |-> data.from, x |-> data.x] >>
       ELSE <<>>

\* The response branch: the resolver is looked up now, called after the await.
ResponseTasks(o, data) ==
    LET payload == decodeNestedFormData(data.payload)
    IN IF data.messageId \in objs[o].pendingRequests /\ payload # Thrown
       THEN << [k |-> "resolve", obj |-> o, messageId |-> data.messageId,
                value |-> payload, from |-> data.from, x |-> data.x] >>
       ELSE <<>>

\* Mutant: an envelope whose messageId is that of a pending request is
\* taken for its response, whatever its type.
handleIncomingMessage_byPending(o, data) ==
    IF data.from = objs[o].id THEN <<>>
    ELSE IF data.messageId \in objs[o].pendingRequests
    THEN ResponseTasks(o, data)
    ELSE IF data.type = "request" THEN RequestTasks(o, data)
    ELSE <<>>

\* Mutant: no self-message guard.
handleIncomingMessage_noSelfGuard(o, data) ==
    IF data.type = "request" THEN RequestTasks(o, data)
    ELSE IF data.type = "response" THEN ResponseTasks(o, data)
    ELSE <<>>

handleIncomingMessage(o, data) ==
    IF data.from = objs[o].id THEN <<>>
    ELSE IF data.type = "request" THEN RequestTasks(o, data)
    ELSE IF data.type = "response" THEN ResponseTasks(o, data)
    ELSE <<>>

\* Mutant: the listener forwards the event to every registered entity.
onWindowMessage_toAll(data) ==
    LET For(id) == IF instances[id] = 0 THEN <<>>
                   ELSE handleIncomingMessage(instances[id], data)
    IN IF data.from \in sourceEntityIdSet THEN <<>>
       ELSE For("A") \o For("B") \o For("C")

\* Mutant: the listener does not look at sourceEntityIdSet.
onWindowMessage_noIgnored(data) ==
    IF instances[data.to] = 0 THEN <<>>
    ELSE handleIncomingMessage(instances[data.to], data)

\* The continuations the listener starts for an event whose data is a valid
\* envelope.
onWindowMessage(data) ==
    IF data.from \in sourceEntityIdSet THEN <<>>
    ELSE LET targetEntity == getById(data.to)
         IN IF targetEntity = 0 THEN <<>>
            ELSE handleIncomingMessage(targetEntity, data)

\* Mutant: the timestamp is not looked at.
isMessageData_noTimestamp(data) ==
    /\ data.via = "bom-message"
    /\ data.type \in {"request", "response"}
    /\ data.typeof.messageId = "string"
    /\ data.typeof.from = "string"
    /\ data.typeof.to = "string"
    /\ data.hasPayload

isMessageData(data) ==
    /\ data.via = "bom-message"
    /\ data.type \in {"request", "response"}
    /\ data.typeof.messageId = "string"
    /\ data.typeof.from = "string"
    /\ data.typeof.to = "string"
    /\ data.hasPayload
    /\ data.typeof.timestamp = "number"

\* Entity.onWindowMessage called with an event: the guards on the event and
\* on event.data, then the routing of onWindowMessage.
onMessageEvent(event) ==
    IF ~event.hasData \/ ~isMessageData(event) THEN <<>>
    ELSE onWindowMessage(event)

\* History: where the listener took the request of a call, the handlers
\* unsubscribed at that time, and the first response with the call's
\* messageId that reached the incoming-message handler of the caller.
Fate(data) ==
    IF listening = 0 THEN "unheard"
    ELSE IF data.defect # "" THEN "invalid"
    ELSE IF data.from \in sourceEntityIdSet THEN "ignored"
    ELSE IF instances[data.to] = 0 THEN "no target"
    ELSE IF data.from = objs[instances[data.to]].id THEN "self"
    ELSE "handled"

NoteDelivery(data) ==
    [m \in DOMAIN trace |->
       IF data.messageId # m \/ data.defect # "" THEN trace[m]
       ELSE IF data.type = "request" /\ data.by = 0 THEN trace[m]
       ELSE IF data.type = "request"
       THEN [trace[m] EXCEPT
               !.fate = Fate(data),
               !.handlers = IF Fate(data) \in {"self", "handled"}
                            THEN objs[instances[data.to]].messageHandlers
                            ELSE <<>>,
               !.unsubscribed = IF Fate(data) \in {"self", "handled"}
                                THEN objs[instances[data.to]].unsubscribed
                                ELSE {},
               !.cut = IF Fate(data) = "handled" THEN @ ELSE ""]
       ELSE [trace[m] EXCEPT
               !.first = IF /\ Fate(data) = "handled"
                            /\ instances[data.to] = calls[m].obj
                            /\ @ = NoValue
                         THEN data.payload ELSE @,
               !.late = @ \/ trace[m].destroyed # ""]]

\* The setTimeout callback of postMessage: emitter.emit("message", {data}).
\* A task of the event loop: it starts only when no microtask is left.
timerFires ==
    /\ micro = <<>>
    /\ timers # <<>>
    /\ micro' = IF listening > 0 THEN onMessageEvent(Head(timers)) ELSE <<>>
    /\ trace' = NoteDelivery(Head(timers))
    /\ timers' = Tail(timers)
    /\ last' = Internal
    /\ UNCHANGED <<isInitialized, globalVerbose, sourceEntityIdSet,
                   instances, hasEmitter,
                   listening, objs, calls, reading, invoked>>

\* Entity.messageEmitter.postMessage(data, "*"); a TypeError when init never
\* assigned the emitter.
postMessage(data) ==
    IF hasEmitter THEN timers' = Append(timers, data) ELSE UNCHANGED timers

\* Mutant: the reply is addressed to the replier and signed by the requester.
Response_swapped(c, response) ==
    [type |-> "response", messageId |-> c.messageId,
     from |-> c.from, to |-> objs[c.obj].id,
     payload |-> encodeNestedFormData(response),
     via |-> "bom-message", typeof |-> Typeofs, hasData |-> TRUE,
     hasPayload |-> TRUE, defect |-> "",
     by |-> c.obj, x |-> response,
     reFrom |-> c.req.from, reId |-> c.req.messageId]

\* The envelope the reply callback of invocation c builds.
Response(c, response) ==
    [type |-> "response", messageId |-> c.messageId,
     from |-> objs[c.obj].id, to |-> c.from,
     payload |-> encodeNestedFormData(response),
     via |-> "bom-message", typeof |-> Typeofs, hasData |-> TRUE,
     hasPayload |-> TRUE, defect |-> "",
     by |-> c.obj, x |-> response,
     reFrom |-> c.req.from, reId |-> c.req.messageId]

\* resolve of a promise: settles it only while it is pending.
Settle(call, value) ==
    IF call.state = "pending"
    THEN [call EXCEPT !.state = "resolved", !.value = value]
    ELSE call

\* Mutant: postMessage emits the event to the listener at once, inside the
\* call, instead of scheduling it.
runPost_emitsNow ==
    /\ micro # <<>> /\ Head(micro).k = "post"
    /\ micro' = Tail(micro) \o
                 (IF hasEmitter /\ listening > 0
                  THEN onMessageEvent(Head(micro).env) ELSE <<>>)
    /\ trace' = IF hasEmitter THEN NoteDelivery(Head(micro).env) ELSE trace
    /\ invoked' = IF Head(micro).inv # 0 /\ hasEmitter
                  THEN [invoked EXCEPT ![Head(micro).inv].sent = @ + 1]
                  ELSE invoked
    /\ last' = Internal
    /\ UNCHANGED <<isInitialized, globalVerbose, sourceEntityIdSet,
                   instances, hasEmitter, listening, objs, calls, reading,
                   timers>>

\* The continuation after `await encodeNestedFormData(...)` in sendMessage
\* and in the reply callback.
runPost ==
    /\ micro # <<>> /\ Head(micro).k = "post"
    /\ postMessage(Head(micro).env)
    /\ invoked' = IF Head(micro).inv # 0 /\ timers' # timers
                  THEN [invoked EXCEPT ![Head(micro).inv].sent = @ + 1]
                  ELSE invoked
    /\ micro' = Tail(micro)
    /\ last' = Internal
    /\ UNCHANGED <<isInitialized, globalVerbose, sourceEntityIdSet,
                   instances, hasEmitter, listening, objs, calls, reading,
                   trace>>

\* The continuation after `await decodeNestedFormData(payload)` in the
\* request branch: handler(sender, payload, reply) is called.
runHandler ==
    /\ micro # <<>> /\ Head(micro).k = "invoke"
    /\ LET task == Head(micro)
       IN invoked' = Append(invoked,
            [obj |-> task.obj, handler |-> task.handler,
             from |-> task.from, messageId |-> task.messageId,
             req |-> task.req, afterUnsub |-> task.afterUnsub,
             replies |-> 0, sent |-> 0])
    /\ micro' = Tail(micro)
    /\ last' = Internal
    /\ UNCHANGED <<isInitialized, globalVerbose, sourceEntityIdSet,
                   instances, hasEmitter,
                   listening, objs, calls, timers, reading, trace>>

\* Mutant: a reply is sent only when no reply callback of the same request
\* was called before.
reply_firstOnly(i, response) ==
    /\ i \in DOMAIN invoked
    /\ invoked' = [invoked EXCEPT ![i].replies = @ + 1]
    /\ IF \E j \in DOMAIN invoked :
            /\ invoked[j].req = invoked[i].req
            /\ invoked[j].replies > 0
       THEN UNCHANGED <<micro, reading>>
       ELSE AfterEncode(response,
               [k |-> "post", inv |-> i,
                env |-> Response(invoked[i], response)])
    /\ last' = Internal
    /\ UNCHANGED <<isInitialized, globalVerbose, sourceEntityIdSet, instances,
                   hasEmitter, listening, objs, calls, timers, trace>>

\* The reply callback handed to invocation i, called by the application
\* during the handler or at any later time.
reply(i, response) ==
    /\ i \in DOMAIN invoked
    /\ invoked' = [invoked EXCEPT ![i].replies = @ + 1]
    /\ AfterEncode(response,
          [k |-> "post", inv |-> i, env |-> Response(invoked[i], response)])
    /\ last' = Internal
    /\ UNCHANGED <<isInitialized, globalVerbose, sourceEntityIdSet,
                   instances, hasEmitter,
                   listening, objs, calls, timers, trace>>

\* The continuation after `await decodeNestedFormData(data.payload)` in the
\* response branch: resolver(value), then pendingRequests.delete(messageId).
runResolver ==
    /\ micro # <<>> /\ Head(micro).k = "resolve"
    /\ LET task == Head(micro)
       IN /\ calls' = [calls EXCEPT
                         ![task.messageId] = Settle(@, task.value)]
          /\ trace' = [trace EXCEPT
                         ![task.messageId] =
                            IF calls[task.messageId].state = "pending"
                            THEN [@ EXCEPT !.x = task.x, !.by = task.from]
                            ELSE @]
          /\ objs' = [objs EXCEPT
                        ![task.obj].pendingRequests = @ \ {task.messageId}]
    /\ micro' = Tail(micro)
    /\ last' = Internal
    /\ UNCHANGED <<isInitialized, globalVerbose, sourceEntityIdSet,
                   instances, hasEmitter,
                   listening, timers, reading, invoked>>

\* reader.onload of encodeFile: the awaiting continuation becomes runnable.
readerLoads(i) ==
    /\ micro = <<>>
    /\ i \in DOMAIN reading
    /\ micro' = Append(micro, reading[i])
    /\ reading' = RemoveAt(reading, i)
    /\ last' = Internal
    /\ UNCHANGED <<isInitialized, globalVerbose, sourceEntityIdSet,
                   instances, hasEmitter,
                   listening, objs, calls, timers, invoked, trace>>

\* ------------------------------------------------- events of other parties
\* The emitter is shared: whatever another party posts on it reaches the
\* listener.  `defect` names the one thing in which the event differs from
\* one holding the envelope of a request or response with messageId 1 (""
\* when in nothing).

Foreign(type, from, to, defect) ==
    [hasData |-> defect # "data", defect |-> defect,
     via |-> IF defect = "via" THEN "other" ELSE "bom-message",
     type |-> IF defect = "type" THEN "event" ELSE type,
     messageId |-> 1, from |-> from, to |-> to,
     hasPayload |-> defect # "payload", payload |-> Hello,
     typeof |-> IF defect \in DOMAIN Typeofs
                THEN [Typeofs EXCEPT ![defect] = "object"]
                ELSE Typeofs,
     by |-> 0, x |-> Hello, reFrom |-> "", reId |-> 0]

Defects == {"data", "via", "type", "messageId", "from", "to", "payload",
            "timestamp"}
Types == {"request", "response"}

RawEvents ==
    {Foreign(ty, "B", "A", d) : ty \in Types, d \in Defects \cup {""}}

\* emitter.emit("message", event) for an event that another party posted:
\* a task of the event loop, like timerFires.
emit(event) ==
    /\ micro = <<>>
    /\ listening > 0
    /\ micro' = onMessageEvent(event)
    /\ last' = Outcome("event", event.from, event.defect = "", 0, "")
    /\ UNCHANGED <<isInitialized, globalVerbose, sourceEntityIdSet, instances,
                   hasEmitter, listening, objs, calls, timers, reading,
                   invoked, trace>>

\* One call of the public surface by the application.
Called(action) ==
    /\ ncalls < MaxCalls
    /\ ncalls' = ncalls + 1
    /\ action
    /\ UNCHANGED aside

\* One step of the event loop.
Step(action) ==
    /\ UNCHANGED ncalls
    /\ action
    /\ UNCHANGED aside

Next ==
    \/ \E c \in InitProps : Called(init(c[1], c[2], c[3]))
    \/ Called(destroy)
    \/ \E id \in Ids, e \in BOOLEAN : Called(constructor(id, e))
    \/ \E o \in DOMAIN objs : Called(entityDestroy(o))
    \/ \E o \in DOMAIN objs, h \in Handlers : Called(subscribeMessage(o, h))
    \/ \E o \in DOMAIN objs, h \in Handlers : Called(unsubscribe(o, h))
    \/ \E o \in DOMAIN objs, t \in Ids, m \in MsgValues :
          Called(sendMessage(o, t, m))
    \/ Step(timerFires)
    \/ Step(runPost)
    \/ Step(runHandler)
    \/ \E i \in DOMAIN invoked, r \in ReplyValues : Called(reply(i, r))
    \/ Step(runResolver)
    \/ \E i \in DOMAIN reading : Step(readerLoads(i))

Spec == Init /\ [][Next]_vars

\* The same application sending form data with an empty file as well.
Uploads == {EmptyUpload}

UploadTargets == {"B"}

NextUpload ==
    \/ Next
    \/ \E o \in DOMAIN objs, t \in UploadTargets, m \in Uploads :
          Called(sendMessage(o, t, m))

SpecUpload == Init /\ [][NextUpload]_vars

\* The same application on a transport that other parties post on.
NextOpen ==
    \/ Next
    \/ \E event \in RawEvents : Called(emit(event))

SpecOpen == Init /\ [][NextOpen]_vars

\* ---------------------------------------------------- the codec on its own
\* Values an application may pass to sendMessage or to a reply callback.
EmptyFile == File("empty.bin", "text/plain", <<>>)

Leaves ==
    {Hello, Num(1), Png, EmptyFile,
     DataUrl("image/png", <<7>>), DataUrl("image/png", <<>>),
     DataUrl(NoMime, <<7>>), DataUrl("image/png", NotBase64),
     Form("note", Hello), Form("upload", Png), EmptyUpload}

Payloads ==
    Leaves
    \cup {Arr(items) : items \in UNION {[1..n -> Leaves] : n \in 0..MaxItems}}
    \cup {Obj("field", v) : v \in Leaves}

\* encoded = await encodeNestedFormData(data)
codecEncode ==
    /\ codec.at = "value"
    /\ codec' = [codec EXCEPT !.at = "encoded",
                               !.encoded = encodeNestedFormData(codec.data)]
    /\ UNCHANGED <<messaging, discovery, encoding, shared>>

\* decoded = decodeNestedFormData(encoded); Thrown when the call throws.
codecDecode ==
    /\ codec.at = "encoded"
    /\ codec' = [codec EXCEPT !.at = "decoded",
                               !.decoded = decodeNestedFormData(codec.encoded)]
    /\ UNCHANGED <<messaging, discovery, encoding, shared>>

InitCodec ==
    /\ Loaded
    /\ Idle
    /\ \E data \in Payloads : codec = Codec("value", data, NoValue, NoValue)
    /\ discovery = Discovery("", NoGlobalEmitter, <<>>, "")
    /\ encoding = NoEncoding
    /\ shared = NoShared

NextCodec == codecEncode \/ codecDecode

SpecCodec == InitCodec /\ [][NextCodec]_vars

\* ------------------------------------------- createMessageEmitter on its own
Methods == {"addEventListener", "removeEventListener", "postMessage"}

Contexts == {Undefined} \cup {Context(TRUE, ms) : ms \in SUBSET Methods}

\* enableAutoCustomEmitter not given, true, false.
EmitterProps == {<<>>, <<TRUE>>, <<FALSE>>}

\* emitter = createMessageEmitter(props)
discover ==
    /\ discovery.at = "props"
    /\ discovery' = [discovery EXCEPT
                       !.at = "returned",
                       !.emitter = createMessageEmitter(discovery.context,
                                                        discovery.props)]
    /\ UNCHANGED <<messaging, codec, encoding, shared>>

InitDiscovery ==
    /\ Loaded
    /\ Idle
    /\ codec = Codec("", NoValue, NoValue, NoValue)
    /\ encoding = NoEncoding
    /\ shared = NoShared
    /\ \E g \in Contexts, gt \in Contexts, w \in Contexts,
          props \in EmitterProps :
          discovery = Discovery("props",
                         [global |-> g, globalThis |-> gt, window |-> w],
                         props, "")

NextDiscovery == discover

SpecDiscovery == InitDiscovery /\ [][NextDiscovery]_vars

\* ------------------------------------------------- encodeFormData on its own
\* Field values: a text, files.  The field names of a form are distinct: the
\* i-th field is named i.
FieldValues == {Hello, Png, EmptyFile}

FormDatas ==
    UNION {[1..n -> FieldValues] : n \in 0..MaxFields}

Field(key, value) == [key |-> key, value |-> value]

FileKeys(formData) ==
    {formData[i].key : i \in {j \in DOMAIN formData :
                                 formData[j].value.t = "file"}}

\* Mutant: Promise.all is given no promise.
fileContentPromises_none(formData) == {}

\* The promises pushed by the forEach callbacks, by key.
fileContentPromises(formData) == FileKeys(formData)

\* encodeFormData(formData) up to its await: forEach runs a callback per
\* field; for a File it starts encodeFile and suspends at
\* `await fileContentPromise` inside the item, for a text it stores the
\* item; then Promise.all(fileContentPromises) is awaited.
encodeFormDataCalled ==
    /\ encoding.at = "formData"
    /\ LET formData == encoding.formData
           texts == {i \in DOMAIN formData : formData[i].value.t # "file"}
       IN encoding' = [encoding EXCEPT
            !.at = "encoding",
            !.items = [k \in {formData[i].key : i \in texts} |->
                         EncodedFormDataItem(
                            (CHOOSE f \in Range(formData) : f.key = k).value)],
            !.reads = FileKeys(formData),
            !.jobs = IF fileContentPromises(formData) = {}
                     THEN << [k |-> "return", key |-> 0] >> ELSE <<>>]
    /\ UNCHANGED <<messaging, codec, discovery, shared>>

\* reader.onload of one of the files, in any order: resolve(reader.result)
\* queues the reactions of the promise in the order they were attached, the
\* await of the callback first, Promise.all's second.
fileLoads(key) ==
    /\ encoding.at = "encoding"
    /\ encoding.jobs = <<>>
    /\ key \in encoding.reads
    /\ encoding' = [encoding EXCEPT
            !.reads = @ \ {key},
            !.loaded = Append(@, key),
            !.jobs = << [k |-> "item", key |-> key],
                        [k |-> "all", key |-> key] >>]
    /\ UNCHANGED <<messaging, codec, discovery, shared>>

\* The next promise job: the callback stores its item; Promise.all counts a
\* resolved promise and resolves when it has seen all it was given; the
\* continuation of encodeFormData returns encodedFormData.
runJob ==
    /\ encoding.at = "encoding"
    /\ encoding.jobs # <<>>
    /\ LET job == Head(encoding.jobs)
           formData == encoding.formData
       IN encoding' =
            IF job.k = "item"
            THEN [encoding EXCEPT
                    !.jobs = Tail(@),
                    !.items = [k \in DOMAIN @ \cup {job.key} |->
                                 IF k = job.key
                                 THEN EncodedFormDataItem(
                                        (CHOOSE f \in Range(formData) :
                                            f.key = k).value)
                                 ELSE @[k]]]
            ELSE IF job.k = "all"
            THEN [encoding EXCEPT
                    !.settled = @ \cup {job.key},
                    !.jobs = IF encoding.settled \cup {job.key}
                                = fileContentPromises(formData)
                             THEN Append(Tail(@),
                                         [k |-> "return", key |-> 0])
                             ELSE Tail(@)]
            ELSE [encoding EXCEPT
                    !.at = "returned", !.jobs = Tail(@),
                    !.returned = [items |-> encoding.items]]
    /\ UNCHANGED <<messaging, codec, discovery, shared>>

InitEncoding ==
    /\ Loaded
    /\ Idle
    /\ codec = Codec("", NoValue, NoValue, NoValue)
    /\ discovery = Discovery("", NoGlobalEmitter, <<>>, "")
    /\ shared = NoShared
    /\ \E values \in FormDatas :
          encoding = FormEncoding("formData",
                        [i \in DOMAIN values |-> Field(i, values[i])])

NextEncoding ==
    \/ encodeFormDataCalled
    \/ \E key \in encoding.reads : fileLoads(key)
    \/ runJob

SpecEncoding == InitEncoding /\ [][NextEncoding]_vars

\* -------------------------------------------- synthesized emitters, shared
Listeners == {"L1", "L2"}

\* Mutant: every call makes its own EventEmitter.
emitterOf_alwaysNew(key) == Len(shared.on) + 1

\* globalThis[globalEmitterKey] ?? new EventEmitter()
emitterOf(key) ==
    IF shared.slots[key] # 0 THEN shared.slots[key] ELSE Len(shared.on) + 1

EmitterCall(op, adapter, listener) ==
    [op |-> op, adapter |-> adapter, listener |-> listener]

\* createMessageEmitter({globalEmitterKey: key}) where no global context is
\* an emitter: the EventEmitter is stored in the slot and an adapter whose
\* closures hold it is returned.
createAdapter(key) ==
    /\ shared.n < MaxEmitterCalls
    /\ createMessageEmitter(NoGlobalEmitter, <<>>) = "custom"
    /\ LET emitter == emitterOf(key)
       IN shared' = [shared EXCEPT
            !.slots[key] = emitter,
            !.on = IF emitter \in DOMAIN @ THEN @ ELSE Append(@, <<>>),
            !.adapters = Append(@, [key |-> key, emitter |-> emitter]),
            !.last = EmitterCall("create", Len(shared.adapters) + 1, ""),
            !.n = @ + 1]
    /\ UNCHANGED <<messaging, codec, discovery, encoding>>

\* adapter.addEventListener("message", listener): emitter.on
addEventListener(a, listener) ==
    /\ shared.n < MaxEmitterCalls
    /\ shared' = [shared EXCEPT
            !.on[shared.adapters[a].emitter] =
                Append(@, [listener |-> listener, via |-> a]),
            !.last = EmitterCall("add", a, listener),
            !.n = @ + 1]
    /\ UNCHANGED <<messaging, codec, discovery, encoding>>

\* EventEmitter.off: the most recently added instance of the listener is
\* removed, if there is one.
Off(listeners, listener) ==
    LET at == {i \in DOMAIN listeners : listeners[i].listener = listener}
    IN IF at = {} THEN listeners
       ELSE RemoveAt(listeners, CHOOSE i \in at : \A j \in at : j <= i)

\* History: the attachment that Off takes away, if any.
TakenOff(listeners, listener) ==
    LET at == {i \in DOMAIN listeners : listeners[i].listener = listener}
    IN IF at = {} THEN {}
       ELSE {listeners[CHOOSE i \in at : \A j \in at : j <= i]}

\* adapter.removeEventListener("message", listener): emitter.off
removeEventListener(a, listener) ==
    /\ shared.n < MaxEmitterCalls
    /\ shared' = [shared EXCEPT
            !.on[shared.adapters[a].emitter] = Off(@, listener),
            !.removed = @ \cup
                {[listener |-> r.listener, via |-> r.via, by |-> a] :
                   r \in TakenOff(shared.on[shared.adapters[a].emitter],
                                  listener)},
            !.last = EmitterCall("remove", a, listener),
            !.n = @ + 1]
    /\ UNCHANGED <<messaging, codec, discovery, encoding>>

\* adapter.postMessage(message): setTimeout(() => emitter.emit(...), 0)
adapterPostMessage(a) ==
    /\ shared.n < MaxEmitterCalls
    /\ shared' = [shared EXCEPT
            !.timeouts = Append(@, a),
            !.last = EmitterCall("post", a, ""),
            !.n = @ + 1]
    /\ UNCHANGED <<messaging, codec, discovery, encoding>>

\* The timeout fires: emitter.emit("message", {data}) calls the listeners
\* the EventEmitter has now, in the order they were added.
emitterEmits ==
    /\ shared.timeouts # <<>>
    /\ LET a == Head(shared.timeouts)
       IN shared' = [shared EXCEPT
            !.timeouts = Tail(@),
            !.emitted = [by |-> a,
                         called |-> shared.on[shared.adapters[a].emitter]],
            !.last = EmitterCall("emit", a, "")]
    /\ UNCHANGED <<messaging, codec, discovery, encoding>>

InitShared ==
    /\ Loaded
    /\ Idle
    /\ codec = Codec("", NoValue, NoValue, NoValue)
    /\ discovery = Discovery("", NoGlobalEmitter, <<>>, "")
    /\ encoding = NoEncoding
    /\ shared \in {NoShared, TwoAdapters}

NextShared ==
    \/ \E key \in Keys : createAdapter(key)
    \/ \E a \in DOMAIN shared.adapters, listener \in Listeners :
          addEventListener(a, listener)
    \/ \E a \in DOMAIN shared.adapters, listener \in Listeners :
          removeEventListener(a, listener)
    \/ \E a \in DOMAIN shared.adapters : adapterPostMessage(a)
    \/ emitterEmits

SpecShared == InitShared /\ [][NextShared]_vars

\* ------------------------------------------------------------------ claims
Posts == {t.env : t \in {u \in Range(micro) \cup Range(reading) : u.k = "post"}}
Envelopes == Range(timers) \cup Posts
Quiet == timers = <<>> /\ micro = <<>> /\ reading = <<>>

\* C1: when A sends to B and a handler of B replies X, A's call resolves
\* with X.  Stated for the calls that have resolved, with both entities
\* still registered: the value the call resolved with is the value that the
\* handler passed to reply.
C1_ResolvesWithReplyValue ==
    \A m \in DOMAIN calls :
        /\ calls[m].state = "resolved"
        /\ instances[objs[calls[m].obj].id] = calls[m].obj
        /\ instances[calls[m].to] # 0
        => calls[m].value = trace[m].x

\* C2: of several responses with the same correlationId delivered to the
\* requester, the first one received is the one the call resolves with: a
\* resolved call holds the decoded payload of the first response received.
C2_FirstResponseWins ==
    \A m \in DOMAIN calls :
        calls[m].state = "resolved"
        => calls[m].value = decodeNestedFormData(trace[m].first)

\* C3: every envelope built by a reply callback is a response that carries
\* the correlationId of the request handled, comes from the replying entity
\* and goes to the sender of that request, which is the id of the entity
\* whose sendMessage call generated the correlationId.
C3_ReplyEnvelope ==
    \A e \in Envelopes :
        e.reId # 0 =>
            /\ e.type = "response"
            /\ e.messageId = e.reId
            /\ e.from = objs[e.by].id
            /\ e.to = e.reFrom
            /\ e.reId \in DOMAIN calls
            /\ e.to = objs[calls[e.reId].obj].id

C3_Witness == \E e \in Range(timers) : e.reId # 0

\* C4: no entity invokes a handler of its own, or resolves a pending request
\* of its own, for an envelope whose `from` is its own id.
C4_SelfSuppression ==
    /\ \A i \in DOMAIN invoked : invoked[i].from # objs[invoked[i].obj].id
    /\ \A t \in Range(micro) :
          t.k \in {"invoke", "resolve"} => t.from # objs[t.obj].id
    /\ \A m \in DOMAIN calls :
          calls[m].state = "resolved" => trace[m].by # objs[calls[m].obj].id

C4_Witness ==
    \E m \in DOMAIN calls :
        /\ trace[m].fate = "self"
        /\ trace[m].handlers # <<>>
        /\ Quiet

\* C5: the listener forwards a delivered envelope to the entity registered
\* under its `to` and to no other: the continuations the delivery starts
\* belong to that entity and a resolver among them is of a call of that
\* entity; no object, call or handler invocation changes in the delivery;
\* with no entity registered under `to` nothing but the transport changes.
C5_RoutingIsolation ==
    [][ (timers # <<>> /\ timers' = Tail(timers)) =>
          LET data == Head(timers)
              target == instances[data.to]
          IN /\ \A k \in DOMAIN micro' :
                   /\ target # 0
                   /\ micro'[k].obj = target
                   /\ micro'[k].k = "resolve"
                         => calls[micro'[k].messageId].obj = target
             /\ UNCHANGED <<objs, calls, invoked, instances>>
             /\ target = 0 =>
                   /\ micro' = <<>>
                   /\ UNCHANGED <<isInitialized, globalVerbose, sourceEntityIdSet,
                                  hasEmitter, listening, reading>>
      ]_vars

C5_Witness ==
    /\ \E m \in DOMAIN calls : trace[m].fate = "no target"
    /\ \E o \in DOMAIN objs :
          instances[objs[o].id] = o /\ objs[o].messageHandlers # <<>>

\* C6: new Entity(id) returns an instance that getById(id) then returns, and
\* leaves the entries of the other ids alone; with id already registered and
\* errorOnDuplicate false it returns the registered instance and changes
\* neither the registry nor any object's handlers or pending requests.
C6_GetOrCreate ==
    [][ (last'.op = "new" /\ last'.err = "") =>
          /\ last'.ret \in DOMAIN objs'
          /\ objs'[last'.ret].id = last'.id
          /\ instances'[last'.id] = last'.ret
          /\ \A id \in Ids \ {last'.id} : instances'[id] = instances[id]
          /\ instances[last'.id] # 0 =>
                /\ last'.ret = instances[last'.id]
                /\ UNCHANGED <<instances, objs, calls>>
          /\ instances[last'.id] = 0 =>
                /\ last'.ret \notin DOMAIN objs
                /\ objs'[last'.ret] = NewEntity(last'.id)
      ]_vars

C6_Witness ==
    /\ last.op = "new" /\ last.err = "" /\ ~last.flag
    /\ objs[last.ret].messageHandlers # <<>>
    /\ objs[last.ret].pendingRequests # {}

\* C7: new Entity(id, {errorOnDuplicate: true}) with id registered fails with
\* DuplicateEntityId and leaves the registry and the objects as they were.
C7_DuplicateThrows ==
    [][ (last'.op = "new" /\ last'.flag /\ instances[last'.id] # 0) =>
          /\ last'.err = "DuplicateEntityId"
          /\ UNCHANGED <<instances, objs, calls>>
      ]_vars

C7_Witness ==
    /\ last.op = "new" /\ last.err = "DuplicateEntityId"
    /\ instances[last.id] # 0

\* C8: a request delivered to an entity after the unsubscribe closure of a
\* handler was called (and the handler not subscribed again) starts no
\* invocation of that handler.
C8_Unsubscribed ==
    /\ \A i \in DOMAIN invoked : ~invoked[i].afterUnsub
    /\ \A t \in Range(micro) : t.k = "invoke" => ~t.afterUnsub

C8_Witness ==
    \E m \in DOMAIN calls :
        /\ trace[m].fate = "handled"
        /\ trace[m].unsubscribed # {}
        /\ Quiet

\* C9: sendMessage of an entity whose id is not registered returns a promise
\* that is rejected (EntityDestroyed) and never resolves.
C9_DestroyedSenderRejected ==
    \A m \in DOMAIN calls :
        trace[m].destroyedAtSend =>
            calls[m].state = "rejected" /\ calls[m].value = NoValue

C9_Witness ==
    \E m \in DOMAIN calls, i \in DOMAIN invoked :
        /\ trace[m].destroyedAtSend
        /\ invoked[i].messageId = m
        /\ invoked[i].replies > 0
        /\ Quiet

\* The call m is unanswered: pending, its entry in the pendingRequests of
\* its entity, and no handler invoked for its request.
Unanswered(m) ==
    /\ calls[m].state = "pending"
    /\ m \in objs[calls[m].obj].pendingRequests
    /\ \A i \in DOMAIN invoked : invoked[i].messageId # m
    /\ \A t \in Range(micro) :
          t.k \in {"invoke", "resolve"} => t.messageId # m

Program == <<isInitialized, globalVerbose, sourceEntityIdSet, instances, hasEmitter,
             listening, objs, calls, timers, micro, reading, invoked>>

Delivery == timers # <<>> /\ timers' = Tail(timers)

\* C11: an event whose data is missing, or lacks the protocol tag, a kind in
\* {request, response}, a string correlationId, a string from, a string to,
\* a payload field or a numeric timestamp, given to the listener, starts no
\* handler invocation and no resolution and changes nothing in the registry
\* or in any entity.
C11_InvalidIgnored ==
    [][ (last'.op = "event" /\ ~last'.flag) => UNCHANGED Program ]_vars

C11_Witness ==
    /\ last.op = "event" /\ ~last.flag
    /\ instances["A"] # 0
    /\ objs[instances["A"]].messageHandlers # <<>>
    /\ 1 \in objs[instances["A"]].pendingRequests

\* C12: a valid envelope whose `from` is in the ignored-source set of the
\* registry, given to the listener, starts no handler invocation and no
\* resolution and changes nothing in the registry or in any entity, whether
\* an entity or another party posted it.
C12_IgnoredSources ==
    [][ /\ (Delivery /\ Head(timers).from \in sourceEntityIdSet) =>
              /\ micro' = <<>>
              /\ UNCHANGED <<isInitialized, globalVerbose, sourceEntityIdSet,
                             instances, hasEmitter, listening, objs, calls,
                             reading, invoked>>
        /\ (last'.op = "event" /\ last'.id \in sourceEntityIdSet) =>
              UNCHANGED Program
      ]_vars

C12_Witness ==
    /\ last.op = "event" /\ last.flag /\ last.id \in sourceEntityIdSet
    /\ instances["A"] # 0
    /\ objs[instances["A"]].messageHandlers # <<>>

Registered(o) == instances[objs[o].id] = o

\* C13: destroy() of a registered entity removes its id from the registry:
\* right after it getById(id) is absent, the listener drops every envelope
\* addressed to the id, and every other registered entity is registered still.
C13_EntityDestroy ==
    [][ (last'.op = "entity.destroy" /\ last'.flag) =>
          /\ instances'[last'.id] = 0
          /\ \A e \in Envelopes : e.to = last'.id => onWindowMessage(e)' = <<>>
          /\ \A id \in Ids \ {last'.id} : instances'[id] = instances[id]
          /\ UNCHANGED <<objs, calls, invoked>>
      ]_vars

C13_Witness ==
    /\ last.op = "entity.destroy" /\ last.flag
    /\ \E e \in Envelopes : e.to = last.id
    /\ \E o \in DOMAIN objs : Registered(o) /\ o # last.ret

\* C14 as claimed: a call that is pending when destroy() of its entity is
\* called is never settled afterwards.
C14_NeverSettledAfterDestroy ==
    \A m \in DOMAIN calls :
        trace[m].destroyed # "" => calls[m].state = "pending"

\* C14 as amended: a call that is pending when destroy() of its entity is
\* called, with no response to it being processed at that time, is never
\* settled afterwards, whatever response is delivered later.
C14_NeverSettledByLaterResponse ==
    \A m \in DOMAIN calls :
        trace[m].destroyed = "pending" => calls[m].state = "pending"

C14_Witness ==
    \E m \in DOMAIN calls :
        /\ trace[m].destroyed = "pending"
        /\ trace[m].late
        /\ Quiet

\* C15: Entity.destroy() leaves an empty entity map, an empty ignored-source
\* set, isInitialized false and no listener attached, whatever the state it
\* is called in; on the class as loaded it changes nothing.
C15_RegistryDestroy ==
    [][ last'.op = "destroy" =>
          /\ \A id \in Ids : instances'[id] = 0
          /\ sourceEntityIdSet' = {}
          /\ ~isInitialized'
          /\ listening' = 0
          /\ UNCHANGED <<objs, calls, timers, micro, reading, invoked>>
          /\ (Loaded /\ calls = <<>>) => UNCHANGED Program
      ]_vars

C15_Witness ==
    /\ last.op = "destroy"
    /\ \E o \in DOMAIN objs : objs[o].messageHandlers # <<>>
    /\ \E m \in DOMAIN calls : calls[m].state = "pending"

\* C16: init called while the registry is initialized changes nothing: not
\* the entity map, the ignored-source set, the verbose flag, the transport
\* or the number of listeners attached, whatever props are passed.
C16_InitIdempotent ==
    [][ (isInitialized /\ last'.op = "init") =>
          UNCHANGED Program /\ last'.err = "" ]_vars

C16_Witness ==
    /\ last.op = "init" /\ ~last.flag
    /\ isInitialized /\ listening = 1
    /\ \E o \in DOMAIN objs : Registered(o) /\ objs[o].messageHandlers # <<>>

\* C17: an init that directly follows Entity.destroy() and succeeds leaves
\* an empty entity map and exactly one listener attached; new Entity with an
\* id that an earlier object had and that is absent from the map makes a
\* fresh object, without handlers and pending requests.
C17_Reinitialization ==
    [][ /\ (last.op = "destroy" /\ last'.op = "init" /\ last'.err = "") =>
              /\ \A id \in Ids : instances'[id] = 0
              /\ isInitialized'
              /\ listening' = 1
        /\ (/\ last'.op = "new" /\ last'.err = ""
            /\ instances[last'.id] = 0
            /\ \E o \in DOMAIN objs : objs[o].id = last'.id) =>
              /\ last'.ret \notin DOMAIN objs
              /\ objs'[last'.ret] = NewEntity(last'.id)
              /\ instances'[last'.id] = last'.ret
      ]_vars

C17_Witness ==
    /\ last.op = "init" /\ last.id = "after destroy" /\ last.err = ""
    /\ isInitialized /\ listening = 1
    /\ \A id \in Ids : instances[id] = 0
    /\ \E o \in DOMAIN objs :
          objs[o].messageHandlers # <<>> /\ objs[o].pendingRequests # {}

\* The handlers invoked for the request of call m, in order of invocation.
InvokedFor(m) ==
    LET for == SelectSeq(invoked, LAMBDA c : c.messageId = m)
    IN [i \in DOMAIN for |-> for[i].handler]

Dispatched(m) ==
    /\ trace[m].fate = "handled"
    /\ \A t \in Range(micro) : t.k = "invoke" => t.messageId # m

\* C18: for a request delivered to an entity, once its dispatch is over,
\* the handlers invoked for it are the handlers subscribed at the delivery,
\* each registration once, in subscription order.
C18_HandlerOrdering ==
    \A m \in DOMAIN calls :
        Dispatched(m) => InvokedFor(m) = trace[m].handlers

\* C19: when the listener has returned from the delivery of a request, no
\* handler invocation for it is left to a later scheduling step.
C19_SynchronousDispatch ==
    \A t \in Range(micro) : t.k # "invoke"

\* Post continuations of the reply callback of invocation i not yet run.
Encoding(i) ==
    Len(SelectSeq(micro \o reading, LAMBDA t : t.k = "post" /\ t.inv = i))

C21_RoundTrip ==
    codec.at = "decoded" => codec.decoded = codec.data

\* A string that decodeFile cannot parse: no comma, nothing after the comma,
\* no mime type in the prefix, or data that is not base64.
Malformed(string) ==
    \/ string.t = "str"
    \/ /\ string.t = "durl"
       /\ \/ string.bytes = <<>>
          \/ string.type = NoMime
          \/ string.bytes = NotBase64

IsString(data) == data.t \in {"str", "durl"}

\* C22: decoding a string that is not a well-formed blob encoding returns
\* the string itself and raises nothing, for a string that is the whole
\* payload and for a string that is an element of an array of strings or the
\* value of an object.
C22_MalformedStringRecovered ==
    codec.at = "decoded" =>
        LET e == codec.encoded
            d == codec.decoded
        IN /\ Malformed(e) => d = e
           /\ (e.t = "arr" /\ \A i \in DOMAIN e.items : IsString(e.items[i]))
                => /\ d.t = "arr"
                   /\ \A i \in DOMAIN e.items :
                         Malformed(e.items[i]) => d.items[i] = e.items[i]
           /\ (e.t = "obj" /\ Malformed(e.value)) =>
                 d.t = "obj" /\ d.value = e.value

C22_Witness ==
    /\ codec.at = "decoded"
    /\ codec.encoded = DataUrl("image/png", NotBase64)
    /\ codec.decoded = codec.encoded

\* A context that implements listen, unlisten and broadcast.
Qualifies(context) == context.defined /\ context.methods = Methods

DiscoveryOrder == <<"global", "globalThis", "window">>

\* C23: createMessageEmitter returns the first of the process-global
\* object, the global scope object and the window object that implements
\* the three methods; when none does it returns a synthesized emitter, and
\* throws instead when enableAutoCustomEmitter is false.
C23_TransportDiscovery ==
    discovery.at = "returned" =>
        LET qualified == {i \in 1..3 :
                            Qualifies(discovery.context[DiscoveryOrder[i]])}
        IN IF qualified # {}
           THEN \E i \in qualified :
                   /\ \A j \in qualified : i <= j
                   /\ discovery.emitter = DiscoveryOrder[i]
           ELSE discovery.emitter =
                   IF discovery.props = <<FALSE>> THEN "throw" ELSE "custom"

C23_Witness ==
    /\ discovery.at = "returned"
    /\ ~Qualifies(discovery.context.global)
    /\ discovery.context.global.defined
    /\ Qualifies(discovery.context.globalThis)
    /\ Qualifies(discovery.context.window)
    /\ discovery.emitter = "globalThis"

\* A step in which postMessage is called with an envelope: a step of the
\* event loop that runs the continuation at the head of the microtasks.
Broadcasts ==
    /\ micro # <<>> /\ Head(micro).k = "post"
    /\ hasEmitter
    /\ ncalls' = ncalls /\ micro' # micro

Sends == Len(calls') > Len(calls)

\* C24: the step that broadcasts an envelope does not deliver it: the
\* envelope is left scheduled, the listener starts nothing, no call settles
\* and no handler runs in that step; and the step of a sendMessage call
\* leaves the new call unresolved, broadcasts nothing and runs no handler.
C24_NonReentrantDelivery ==
    [][ /\ Broadcasts =>
            /\ timers' = Append(timers, Head(micro).env)
            /\ micro' = Tail(micro)
            /\ calls' = calls
            /\ trace' = trace
            /\ Len(invoked') = Len(invoked)
        /\ Sends =>
            /\ calls'[Len(calls')].state # "resolved"
            /\ timers' = timers
            /\ invoked' = invoked
      ]_vars

\* A response has been broadcast and its call is still pending.
C24_Witness ==
    \E i \in DOMAIN timers :
        /\ timers[i].type = "response"
        /\ calls[timers[i].messageId].state = "pending"
        /\ micro = <<>>

\* The handlers of a list other than h, in their order.
Others(handlers, h) == SelectSeq(handlers, LAMBDA x : x # h)

\* C25: a call of the unsubscribe closure of handler h of an entity leaves
\* h out of the entity's handler list, keeps the other handlers in their
\* order, touches no other entity and nothing else of this one; when h is
\* not in the list (the closure was called before) the list is unchanged.
C25_UnsubscribeExactlyOne ==
    [][ last'.op = "unsubscribe" =>
          LET o == last'.ret
              h == last'.id
          IN /\ h \notin Range(objs'[o].messageHandlers)
             /\ Others(objs'[o].messageHandlers, h)
                  = Others(objs[o].messageHandlers, h)
             /\ h \notin Range(objs[o].messageHandlers) =>
                  objs'[o].messageHandlers = objs[o].messageHandlers
             /\ objs'[o].pendingRequests = objs[o].pendingRequests
             /\ \A q \in DOMAIN objs : q # o => objs'[q] = objs[q]
             /\ UNCHANGED <<instances, calls, timers, micro, reading,
                            invoked>>
      ]_vars

\* The closure of a handler has just been called a second time, on a list
\* that still holds another handler.
C25_Witness ==
    /\ last.op = "unsubscribe" /\ ~last.flag
    /\ last.id \in objs[last.ret].unsubscribed
    /\ objs[last.ret].messageHandlers # <<>>

\* sendMessage of entity o is called in this step.
SendsFrom(o) ==
    /\ Len(calls') = Len(calls) + 1
    /\ calls'[Len(calls')].obj = o

\* Entity o processes a response with messageId m in this step: the
\* continuation of its response branch runs.
ProcessesResponse(o, m) ==
    /\ micro # <<>> /\ Head(micro).k = "resolve"
    /\ Head(micro).obj = o /\ Head(micro).messageId = m
    /\ ncalls' = ncalls /\ micro' = Tail(micro)

\* C26: the pending requests of an entity change only by its own
\* sendMessage, which adds the new messageId, and by its processing of a
\* response with a pending messageId, which removes that one; every other
\* step (subscribe, unsubscribe, destroy, init, requests, other responses)
\* leaves them as they are.
C26_PendingLifecycle ==
    [][ \A o \in DOMAIN objs :
          LET before == objs[o].pendingRequests
              after == objs'[o].pendingRequests
          IN after # before =>
               \/ SendsFrom(o) /\ after = before \cup {Len(calls')}
               \/ \E m \in before :
                     ProcessesResponse(o, m) /\ after = before \ {m}
      ]_vars

\* An entity has just been destroyed and its pending request is still there.
C26_Witness ==
    /\ last.op = "entity.destroy" /\ last.flag
    /\ objs[last.ret].pendingRequests # {}

\* The listener takes the envelope at the head of the scheduled ones, a
\* response that passes the guards and whose target entity has no pending
\* request under its messageId.
DeliversUnmatchedResponse ==
    /\ Delivery /\ ncalls' = ncalls
    /\ listening > 0
    /\ LET data == Head(timers)
       IN /\ data.type = "response"
          /\ Fate(data) = "handled"
          /\ data.messageId \notin
                objs[instances[data.to]].pendingRequests

\* C27: a response whose messageId is not among the pending requests of
\* its target entity is dropped: its delivery starts nothing, settles no
\* call, invokes no handler and leaves every entity as it is; the same
\* holds for a valid event of another party addressed to an entity that has
\* no pending request under the event's messageId, as far as calls and
\* pending requests go.
C27_UnmatchedResponseDropped ==
    [][ /\ DeliversUnmatchedResponse =>
            /\ micro' = <<>>
            /\ UNCHANGED <<objs, calls, invoked, instances, reading>>
        /\ (/\ last'.op = "event" /\ last'.flag
            /\ instances["A"] # 0
            /\ 1 \notin objs[instances["A"]].pendingRequests) =>
            /\ \A t \in Range(micro') : t.k # "resolve"
            /\ UNCHANGED <<objs, calls, invoked>>
      ]_vars

\* Both replies to a request have been broadcast and delivered, the call
\* resolved with the first, and the requester is still registered: the
\* second response found no pending request.
C27_Witness ==
    \E m \in DOMAIN calls, i \in DOMAIN invoked :
        /\ invoked[i].messageId = m /\ invoked[i].sent = 2
        /\ calls[m].state = "resolved"
        /\ trace[m].first # NoValue
        /\ calls[m].value = decodeNestedFormData(trace[m].first)
        /\ instances[objs[calls[m].obj].id] = calls[m].obj
        /\ Quiet

\* C28: when the request of a sendMessage call is broadcast, after the
\* encoding of its payload however long that takes, the pending entry of
\* its messageId is registered with the sender; and when a response is
\* delivered, the pending entry of its messageId is registered with the
\* caller unless the caller has processed a response to it before.
C28_PendingBeforeBroadcast ==
    [][ /\ (Broadcasts /\ Head(micro).env.type = "request") =>
            Head(micro).env.messageId
                \in objs[Head(micro).env.by].pendingRequests
        /\ (Delivery /\ ncalls' = ncalls
              /\ Head(timers).type = "response") =>
            LET m == Head(timers).messageId
            IN \/ m \in objs[calls[m].obj].pendingRequests
               \/ trace[m].first # NoValue
      ]_vars

\* A request whose payload had to be read from a file has been broadcast
\* and its pending entry is there.
C28_Witness ==
    \E i \in DOMAIN timers :
        /\ timers[i].type = "request"
        /\ ReadsFile(timers[i].x)
        /\ timers[i].messageId \in objs[timers[i].by].pendingRequests

\* C29: when encodeFormData returns, every field of the form has its item
\* in the returned value, a file item holds the whole content of its file,
\* and no file is still being read, whatever order the reads completed in.
C29_ReturnsAfterAllReads ==
    encoding.at = "returned" =>
        /\ encoding.reads = {}
        /\ \A i \in DOMAIN encoding.formData :
              LET field == encoding.formData[i]
                  items == encoding.returned.items
              IN /\ field.key \in DOMAIN items
                 /\ IF field.value.t = "file"
                    THEN /\ items[field.key].dataType = "file"
                         /\ items[field.key].content =
                               DataUrl(field.value.type, field.value.bytes)
                    ELSE /\ items[field.key].dataType = "text"
                         /\ items[field.key].content = field.value

\* A form of two files has been encoded, the second file read first.
C29_Witness ==
    /\ encoding.at = "returned"
    /\ Len(encoding.loaded) >= 2
    /\ encoding.loaded[1] > encoding.loaded[2]

\* The listeners added through adapter a and not removed, as the emitters
\* hold them.
AddedThrough(a) ==
    {r \in UNION {Range(shared.on[e]) : e \in DOMAIN shared.on} : r.via = a}

\* How many times listener is attached to the emitter adapter a uses.
Attached(sh, a, listener) ==
    Len(SelectSeq(sh.on[sh.adapters[a].emitter],
                  LAMBDA r : r.listener = listener))

C31_RejectedSendHasNoEffect ==
    \A m \in DOMAIN calls :
        trace[m].destroyedAtSend =>
            /\ m \notin objs[calls[m].obj].pendingRequests
            /\ \A e \in Envelopes :
                  ~(e.type = "request" /\ e.messageId = m)

\* C32: a call that has resolved was resolved by a response whose `from`
\* is the target the request was sent to.
C32_ResolvedByTargetOnly ==
    \A m \in DOMAIN calls :
        calls[m].state = "resolved" => trace[m].by = calls[m].to

\* C33: destroy() called on an instance that is not the one registered
\* under its id leaves the registry as it is, and sendMessage called on such
\* an instance is rejected.
C33_StaleInstance ==
    [][ /\ (last'.op = "entity.destroy" /\ ~last'.flag) =>
            instances' = instances
        /\ Sends =>
            LET call == calls'[Len(calls')]
            IN instances[objs[call.obj].id] # call.obj =>
                 call.state = "rejected"
      ]_vars

\* C34: an init that fails with NoTransportAvailable leaves the registry
\* uninitialized and without listener, and an init allowing a synthesized
\* emitter that follows it initializes the registry and attaches the
\* listener.
FailedInit(outcome) ==
    outcome.op = "init" /\ outcome.err = "NoTransportAvailable"

C34_FailedInitRetry ==
    [][ /\ FailedInit(last') => ~isInitialized' /\ listening' = 0
        /\ (FailedInit(last) /\ last'.op = "init" /\ last'.flag) =>
              isInitialized' /\ listening' = 1
      ]_vars

\* C35: when a handler is invoked, the unsubscribe closure of its
\* registration has not been called, whenever the request was delivered.
Invokes == Len(invoked') = Len(invoked) + 1

C35_NoInvocationAfterUnsubscribe ==
    [][ Invokes =>
          LET call == invoked'[Len(invoked')]
          IN call.handler \notin objs[call.obj].unsubscribed
      ]_vars

\* C36: calling the unsubscribe closure of a handler that is subscribed
\* twice on an entity leaves one registration of it.
Registrations(o, handler) ==
    Len(SelectSeq(objs[o].messageHandlers, LAMBDA h : h = handler))

C36_UnsubscribeOneOfTwo ==
    [][ (last'.op = "unsubscribe" /\ Registrations(last'.ret, last'.id) = 2)
          => Len(SelectSeq(objs'[last'.ret].messageHandlers,
                           LAMBDA h : h = last'.id)) = 1
      ]_vars

\* C37: a request that was scheduled on the emitter when Entity.destroy()
\* was called does not reach the incoming-message handler of an entity after
\* the Entity.init() that follows; the entity it would reach is one
\* constructed after that init, since destroy and init both empty the
\* registry.
C37_NoDeliveryAcrossDestroy ==
    \A m \in DOMAIN trace :
        trace[m].cut = "initialized" => trace[m].fate # "handled"

\* C38: the message listener is attached exactly once while the registry
\* is initialized and not at all while it is not.
C38_OneListenerWhenInitialized ==
    listening = (IF isInitialized THEN 1 ELSE 0)

\* C39: the entity registered under an id stops being the one getById
\* returns only by its own destroy() or by Entity.destroy(); in particular
\* Entity.init() removes no entity.
C39_RetrievableUntilDestroyed ==
    [][ \A id \in Ids :
          (instances[id] # 0 /\ instances'[id] # instances[id]) =>
              \/ last'.op = "destroy"
              \/ last'.op = "entity.destroy" /\ last'.ret = instances[id]
      ]_vars

\* C40: the delivery of a request envelope starts no resolution of a
\* pending request, also when its messageId is that of a pending request of
\* the receiver, and the delivery of a response envelope starts no handler
\* invocation.
Delivers(type) ==
    \/ timerFires /\ Head(timers).type = type
    \/ \E event \in RawEvents : event.type = type /\ emit(event)

Starts(k) == \E i \in DOMAIN micro' : micro'[i].k = k

C40_BranchByType ==
    [][ /\ Delivers("request") => ~Starts("resolve")
        /\ Delivers("response") => ~Starts("invoke")
      ]_vars

\* A handler of an entity has been invoked for a request of another party
\* whose messageId is that of a request of the entity, which stays pending.
C40_Witness ==
    /\ micro = <<>>
    /\ \E i \in DOMAIN invoked :
          /\ invoked[i].req.by = 0
          /\ invoked[i].messageId \in objs[invoked[i].obj].pendingRequests
          /\ calls[invoked[i].messageId].obj = invoked[i].obj
          /\ calls[invoked[i].messageId].state = "pending"

====
